---- MODULE Spec2Model ----
(***************************************************************************)
(* NetPulse (src/netpulse.py): the measurement-and-history engine.         *)
(*                                                                         *)
(* The model covers class NetPulse (constructor, measure_once, start and   *)
(* its background loop, stop, snapshot) and the two probe helpers          *)
(* tcp_connect_time and download_probe.                                    *)
(*                                                                         *)
(* Units.  Wall-clock differences are counted in ticks of 0.0001 s, the    *)
(* smallest duration the source names (line 88), so that every duration    *)
(* the model uses is an integer.  Latencies are in milliseconds, byte      *)
(* counts in bytes, throughput in bytes per tick.  The environment only    *)
(* offers durations for which the divisions of the source are exact.       *)
(*                                                                         *)
(* Python objects.  A dict is an insertion-ordered sequence of <<key,      *)
(* value>> pairs with unique keys.  None is the empty tuple and a float x  *)
(* that may also be None is the one-element tuple <<x>>.  The dicts built  *)
(* by measure_once live in `heap` and are referred to by their index, so   *)
(* that two references to the same dict are visible as such.               *)
(***************************************************************************)
EXTENDS Integers, Sequences, FiniteSets, TLC

----------------------------------------------------------------------------
\* Bounds of the model.
MaxThreads == 2         \* Start() calls that create a loop thread
MaxCycles == 2          \* measure_once calls begun, all loops together
NumReaders == 1         \* foreground contexts calling snapshot()
MaxHistoryCycles == 122 \* cycles of the long single-loop run (SpecHistory)
MaxProbeCycles == 1     \* cycles of the single-loop run over all probe outcomes
MaxSingleCycles == 3    \* cycles of the run with one start() (SpecSingle)

\* Constants of the program.
MAXLEN == 120              \* deque(maxlen=120)
TICKS_PER_SECOND == 10000  \* 1 tick = 0.0001 s
MS_PER_SECOND == 1000      \* (end - start) * 1000.0
MIN_ELAPSED == 1           \* max(0.0001, end - start), in ticks
CHUNK == 32768             \* 32 * 1024
CONNECT_TIMEOUT == 12000   \* timeout=1.2, in ticks
TICKS_PER_MS == TICKS_PER_SECOND \div MS_PER_SECOND

Max(a, b) == IF a >= b THEN a ELSE b
Min(a, b) == IF a <= b THEN a ELSE b

----------------------------------------------------------------------------
\* Python values.
None == << >>
Some(x) == << x >>
EmptyDict == << >>

DictHas(d, k) == \E i \in 1..Len(d) : d[i][1] = k
DictKeys(d) == { d[i][1] : i \in 1..Len(d) }
DictGet(d, k) == d[CHOOSE i \in 1..Len(d) : d[i][1] = k][2]
\* d[k] = v: an existing key keeps its position, a new key goes last.
DictSet(d, k, v) ==
    IF DictHas(d, k)
    THEN [i \in 1..Len(d) |-> IF d[i][1] = k THEN <<k, v>> ELSE d[i]]
    ELSE Append(d, <<k, v>>)

\* f"{host}:{port}"
Key(h) == h[1] \o ":" \o ToString(h[2])

\* deque(maxlen=MAXLEN).append(x)
DequeAppend_DropNewest(d, x) == IF Len(d) >= MAXLEN THEN d ELSE Append(d, x)
DequeAppend(d, x) ==
    IF Len(d) >= MAXLEN THEN Append(Tail(d), x) ELSE Append(d, x)

----------------------------------------------------------------------------
\* The probe helpers.  `reachable` and `dt` stand for what the network and
\* the two time.time() readings give; the clock is taken not to run
\* backwards between the two readings of one probe.

\* tcp_connect_time: milliseconds, or None on any failure.
TcpConnectTime_ZeroOnFail(reachable, dt, timeout) ==
    IF reachable /\ dt < timeout
    THEN Some((dt * MS_PER_SECOND) \div TICKS_PER_SECOND)
    ELSE Some(0)
TcpConnectTime_ZeroIsNone(reachable, dt, timeout) ==
    IF reachable /\ dt < timeout /\ dt > 0
    THEN Some((dt * MS_PER_SECOND) \div TICKS_PER_SECOND)
    ELSE None
TcpConnectTime(reachable, dt, timeout) ==
    IF reachable /\ dt < timeout
    THEN Some((dt * MS_PER_SECOND) \div TICKS_PER_SECOND)
    ELSE None

\* The read loop of download_probe: chunks of at most CHUNK bytes until
\* bytes_to_read are read or the stream (avail bytes long) ends.
RECURSIVE ReadLoop(_, _, _)
ReadLoop(read, avail, bytes_to_read) ==
    IF read < bytes_to_read
    THEN LET n == Min(Min(CHUNK, bytes_to_read - read), avail)
         IN  IF n = 0 THEN read
             ELSE ReadLoop(read + n, avail - n, bytes_to_read)
    ELSE read

\* download_probe: <<bytes_read, seconds_elapsed>>, <<0, 0>> on any failure.
DownloadProbe_NoFloor(ok, avail, dt, bytes_to_read) ==
    IF ok THEN << ReadLoop(0, avail, bytes_to_read), dt >> ELSE << 0, 0 >>
DownloadProbe(ok, avail, dt, bytes_to_read) ==
    IF ok
    THEN << ReadLoop(0, avail, bytes_to_read), Max(MIN_ELAPSED, dt) >>
    ELSE << 0, 0 >>

\* bps = (bytes_read / seconds) if seconds > 0 else 0.0
Throughput(bytes_read, seconds) ==
    IF seconds > 0 THEN bytes_read \div seconds ELSE 0

\* val if val is not None else 0.0
PingSample(val) == IF val # None THEN val[1] ELSE 0

----------------------------------------------------------------------------
\* What the environment can offer.
TargetA == << "alpha", 53 >>
TargetB == << "beta", 80 >>
Targets == { TargetA, TargetB }

\* Arguments of NetPulse(hosts, url, bytes_probe, interval); interval in seconds.
ConstructArgs ==
    { [hosts |-> << TargetA, TargetB >>, bytes_probe |-> 4 * CHUNK, interval |-> 2],
      [hosts |-> << TargetA, TargetA >>, bytes_probe |-> CHUNK, interval |-> 0],
      [hosts |-> << >>, bytes_probe |-> 0, interval |-> -3] }

\* Every outcome a probe can have: end - start of a connect (the last one is
\* the timeout expiring), end - start of a read phase, length of the body.
ConnectTicks == { 0, 7 * TICKS_PER_MS, CONNECT_TIMEOUT }
DownloadTicks == { 0, 1, 2 }
StreamBytes == { 0, CHUNK, 6 * CHUNK }

\* One scenario, in which every cycle leaves its own values behind: TargetB
\* never answers, every other target answers cycle n after n ms, and the
\* body served to cycle n is n chunks long and is read in one tick.
ScenarioReach(h) == { h # TargetB }
ScenarioConnectTicks(n) == { n * TICKS_PER_MS }
ScenarioStreamBytes(n) == { n * CHUNK }

Threads == 1..MaxThreads
Readers == 1..NumReaders

VARIABLES
    hosts,            \* the list object given to the constructor (self.hosts)
    bytes_probe,      \* self.bytes_probe
    interval,         \* self.interval
    running,          \* self.running
    lock,             \* self.lock: Free or its holder
    download_history, \* self.download_history
    ping_history,     \* self.ping_history: key -> deque
    last_results,     \* self.last_results: EmptyDict or the record of a cycle
    heap,             \* the `results` dicts allocated so far
    pc,               \* where each loop thread is
    loc,              \* the locals of each loop thread's measure_once call
    rpc,              \* where each snapshot() caller is
    snap,             \* the tuple each snapshot() caller got last
    args,             \* history: the arguments the constructor was given
    begun,            \* history: measure_once calls begun
    fed_download,     \* history: every value appended to download_history
    fed_ping,         \* history: every value appended to each ping deque
    replaced,         \* history: assignments to self.last_results
    obliged           \* history: loops live at a stop() and not yet at their check

vars == << hosts, bytes_probe, interval, running, lock, download_history,
           ping_history, last_results, heap, pc, loc, rpc, snap, args, begun,
           fed_download, fed_ping, replaced, obliged >>

Free == << >>
LoopHolder(t) == << "loop", t >>
SnapHolder(r) == << "snapshot", r >>

\* threading.Lock: acquire succeeds only when nobody holds it.
CanAcquire_Always(l) == TRUE
CanAcquire(l) == l = Free

\* The locals of measure_once (cycle, failed and ok are history: the number
\* of the call, the keys whose latest probe failed, whether the download was
\* answered).
NoLocals ==
    [cycle |-> 0, results |-> 0, idx |-> 0, bytes_read |-> 0, seconds |-> 0, bps |-> 0,
     it |-> 0, failed |-> {}, ok |-> FALSE, ret |-> None]

HostKeys(hs) == { Key(hs[i]) : i \in 1..Len(hs) }

\* __init__
\* self.interval = max(1.0, interval), in seconds
ClampInterval_Magnitude(x) == IF x < 0 THEN -x ELSE Max(1, x)
ClampInterval(x) == Max(1, x)

Construct(a) ==
    /\ args = a
    /\ hosts = a.hosts
    /\ bytes_probe = a.bytes_probe
    /\ interval = ClampInterval(a.interval)
    /\ running = FALSE
    /\ lock = Free
    /\ download_history = << >>
    /\ ping_history = [k \in HostKeys(a.hosts) |-> << >>]
    /\ last_results = EmptyDict
    /\ heap = << >>
    /\ pc = [t \in Threads |-> "unborn"]
    /\ loc = [t \in Threads |-> NoLocals]
    /\ rpc = [r \in Readers |-> "idle"]
    /\ snap = [r \in Readers |-> << >>]
    /\ begun = 0
    /\ fed_download = << >>
    /\ fed_ping = [k \in HostKeys(a.hosts) |-> << >>]
    /\ replaced = 0
    /\ obliged = {}

Init == \E a \in ConstructArgs : Construct(a)

Live == { t \in Threads : pc[t] \notin { "unborn", "done" } }
InCycle == { t \in Threads : pc[t] \in { "ping", "acquire", "book_download", "book_ping", "return" } }

config == << hosts, bytes_probe, interval, args >>
engine == << download_history, ping_history, last_results, fed_download, fed_ping, replaced >>
readers == << rpc, snap >>

\* start(): set the flag, create and start one more loop thread.  start()
\* and stop() are called from one foreground context, so each is one step.
Start_FreshHistories ==
    /\ \E t \in Threads :
        /\ pc[t] = "unborn"
        /\ \A u \in Threads : u < t => pc[u] # "unborn"
        /\ pc' = [pc EXCEPT ![t] = "check"]
    /\ running' = TRUE
    /\ download_history' = << >>
    /\ ping_history' = [k \in DOMAIN ping_history |-> << >>]
    /\ UNCHANGED << config, readers, lock, heap, loc, begun, obliged,
                    last_results, fed_download, fed_ping, replaced >>
Start ==
    /\ \E t \in Threads :
        /\ pc[t] = "unborn"
        /\ \A u \in Threads : u < t => pc[u] # "unborn"
        /\ pc' = [pc EXCEPT ![t] = "check"]
    /\ running' = TRUE
    /\ UNCHANGED << config, engine, readers, lock, heap, loc, begun, obliged >>

\* stop()
Stop_Toggles ==
    /\ running' = ~running
    /\ obliged' = obliged \cup Live
    /\ UNCHANGED << config, engine, readers, lock, heap, pc, loc, begun >>
Stop ==
    /\ running' = FALSE
    /\ obliged' = obliged \cup Live
    /\ UNCHANGED << config, engine, readers, lock, heap, pc, loc, begun >>

\* loop(): `while self.running`; a true flag enters measure_once, whose
\* first statement is `results = {}`.
LoopCheckUpTo_Locked(t, cap) ==
    /\ pc[t] = "check"
    /\ obliged' = obliged \ { t }
    /\ IF running
       THEN /\ begun < cap
            /\ CanAcquire(lock)
            /\ lock' = LoopHolder(t)
            /\ begun' = begun + 1
            /\ heap' = Append(heap, EmptyDict)
            /\ loc' = [loc EXCEPT ![t] = [NoLocals EXCEPT !.cycle = begun + 1,
                                                             !.results = Len(heap) + 1]]
            /\ pc' = [pc EXCEPT ![t] = "ping"]
       ELSE /\ pc' = [pc EXCEPT ![t] = "done"]
            /\ UNCHANGED << begun, heap, loc, lock >>
    /\ UNCHANGED << config, engine, readers, running >>
LoopCheckUpTo(t, cap) ==
    /\ pc[t] = "check"
    /\ obliged' = obliged \ { t }
    /\ IF running
       THEN /\ begun < cap
            /\ begun' = begun + 1
            /\ heap' = Append(heap, EmptyDict)
            /\ loc' = [loc EXCEPT ![t] = [NoLocals EXCEPT !.cycle = begun + 1,
                                                             !.results = Len(heap) + 1]]
            /\ pc' = [pc EXCEPT ![t] = "ping"]
       ELSE /\ pc' = [pc EXCEPT ![t] = "done"]
            /\ UNCHANGED << begun, heap, loc >>
    /\ UNCHANGED << config, engine, readers, running, lock >>

\* loop(): `except Exception: pass`, then time.sleep: where the loop thread
\* is after measure_once raised.
LoopExcept_ThreadDies == "done"
LoopExcept == "sleep"

\* One turn of `for host, port in self.hosts`: the list iterator yields the
\* element at its index as long as the index is inside the list.  An
\* element that is no pair cannot be unpacked: ValueError ends measure_once.
ProbePingFrom(t, Reach, Dts) ==
    /\ pc[t] = "ping"
    /\ loc[t].idx < Len(hosts)
    /\ IF Len(hosts[loc[t].idx + 1]) # 2
       THEN /\ pc' = [pc EXCEPT ![t] = LoopExcept]
            /\ UNCHANGED << heap, loc >>
       ELSE /\ \E reachable \in Reach, dt \in Dts :
                LET h == hosts[loc[t].idx + 1]
                    ms == TcpConnectTime(reachable, dt, CONNECT_TIMEOUT)
                IN  /\ heap' = [heap EXCEPT ![loc[t].results] = DictSet(@, Key(h), ms)]
                    /\ loc' = [loc EXCEPT ![t].idx = @ + 1,
                                          ![t].failed = IF reachable /\ dt < CONNECT_TIMEOUT
                                                        THEN @ \ { Key(h) }
                                                        ELSE @ \cup { Key(h) }]
            /\ UNCHANGED pc
    /\ UNCHANGED << config, engine, readers, running, lock, begun, obliged >>

\* The iterator is exhausted: download_probe and the throughput.
ProbeDownloadFrom(t, Oks, Avails, Dts) ==
    /\ pc[t] = "ping"
    /\ loc[t].idx >= Len(hosts)
    /\ \E ok \in Oks, avail \in Avails, dt \in Dts :
        LET got == DownloadProbe(ok, avail, dt, bytes_probe)
        IN  loc' = [loc EXCEPT ![t].ok = ok,
                               ![t].bytes_read = got[1],
                               ![t].seconds = got[2],
                               ![t].bps = Throughput(got[1], got[2])]
    /\ pc' = [pc EXCEPT ![t] = "acquire"]
    /\ UNCHANGED << config, engine, readers, running, lock, heap, begun, obliged >>

\* with self.lock:
Acquire_Unlocked(t) ==
    /\ pc[t] = "acquire"
    /\ pc' = [pc EXCEPT ![t] = "book_download"]
    /\ UNCHANGED << config, engine, readers, running, lock, heap, loc, begun, obliged >>
Acquire(t) ==
    /\ pc[t] = "acquire"
    /\ CanAcquire(lock)
    /\ lock' = LoopHolder(t)
    /\ pc' = [pc EXCEPT ![t] = "book_download"]
    /\ UNCHANGED << config, engine, readers, running, heap, loc, begun, obliged >>

\* self.download_history.append(bps)
BookDownload(t) ==
    /\ pc[t] = "book_download"
    /\ download_history' = DequeAppend(download_history, loc[t].bps)
    /\ fed_download' = Append(fed_download, loc[t].bps)
    /\ pc' = [pc EXCEPT ![t] = "book_ping"]
    /\ UNCHANGED << config, readers, running, lock, heap, loc, begun, obliged,
                    ping_history, last_results, fed_ping, replaced >>

\* The record assigned to self.last_results; "pings" is the results dict itself.
OwnRecord_Merge(t) ==
    [pings |-> loc[t].results, download_bps |-> loc[t].bps,
     bytes |-> IF last_results = EmptyDict THEN loc[t].bytes_read ELSE last_results.bytes,
     elapsed |-> loc[t].seconds]
OwnRecord(t) ==
    [pings |-> loc[t].results, download_bps |-> loc[t].bps,
     bytes |-> loc[t].bytes_read, elapsed |-> loc[t].seconds]

\* One turn of `for hp, val in results.items()`, or, past the last item,
\* the assignment to self.last_results and the end of the with block.  A key
\* that ping_history lacks raises KeyError: the with block releases the lock
\* and the exception ends measure_once, to be swallowed by loop().
BookPing(t) ==
    /\ pc[t] = "book_ping"
    /\ LET d == heap[loc[t].results] IN
       IF loc[t].it < Len(d)
       THEN LET hp == d[loc[t].it + 1][1]
                val == d[loc[t].it + 1][2]
            IN  IF hp \in DOMAIN ping_history
                THEN /\ ping_history' = [ping_history EXCEPT ![hp] = DequeAppend(@, PingSample(val))]
                     /\ fed_ping' = [fed_ping EXCEPT ![hp] = Append(@, PingSample(val))]
                     /\ loc' = [loc EXCEPT ![t].it = @ + 1]
                     /\ UNCHANGED << lock, pc, last_results, replaced >>
                ELSE /\ lock' = Free
                     /\ pc' = [pc EXCEPT ![t] = LoopExcept]
                     /\ UNCHANGED << ping_history, fed_ping, loc, last_results, replaced >>
       ELSE /\ last_results' = OwnRecord(t)
            /\ replaced' = replaced + 1
            /\ lock' = Free
            /\ pc' = [pc EXCEPT ![t] = "return"]
            /\ UNCHANGED << ping_history, fed_ping, loc >>
    /\ UNCHANGED << config, readers, running, heap, begun, obliged,
                    download_history, fed_download >>

\* return self.last_results
Return_NoSleep(t) ==
    /\ pc[t] = "return"
    /\ loc' = [loc EXCEPT ![t] = NoLocals]
    /\ pc' = [pc EXCEPT ![t] = "check"]
    /\ UNCHANGED << config, engine, readers, running, lock, heap, begun, obliged >>
Return(t) ==
    /\ pc[t] = "return"
    /\ loc' = [loc EXCEPT ![t].ret = Some(last_results)]
    /\ pc' = [pc EXCEPT ![t] = "sleep"]
    /\ UNCHANGED << config, engine, readers, running, lock, heap, begun, obliged >>

\* time.sleep(self.interval); the locals of the finished call are gone.
Sleep(t) ==
    /\ pc[t] = "sleep"
    /\ loc' = [loc EXCEPT ![t] = NoLocals]
    /\ pc' = [pc EXCEPT ![t] = "check"]
    /\ UNCHANGED << config, engine, readers, running, lock, heap, begun, obliged >>

\* snapshot(): with self.lock
SnapshotAcquire(r) ==
    /\ rpc[r] = "idle"
    /\ CanAcquire(lock)
    /\ lock' = SnapHolder(r)
    /\ rpc' = [rpc EXCEPT ![r] = "copy"]
    /\ UNCHANGED << config, engine, snap, running, heap, pc, loc, begun, obliged >>

\* dict(self.last_results) copies the top level only: the copy's "pings" is
\* the dict last_results refers to.  list(...) copies a deque of floats.
SnapshotValue == << last_results, download_history, ping_history >>

SnapshotReturn_KeepsLock(r) ==
    /\ rpc[r] = "copy"
    /\ snap' = [snap EXCEPT ![r] = SnapshotValue]
    /\ rpc' = [rpc EXCEPT ![r] = "idle"]
    /\ UNCHANGED << config, engine, running, lock, heap, pc, loc, begun, obliged >>
SnapshotReturn(r) ==
    /\ rpc[r] = "copy"
    /\ snap' = [snap EXCEPT ![r] = SnapshotValue]
    /\ lock' = Free
    /\ rpc' = [rpc EXCEPT ![r] = "idle"]
    /\ UNCHANGED << config, engine, running, heap, pc, loc, begun, obliged >>

----------------------------------------------------------------------------
\* Spec: every interleaving of start(), stop(), the loop threads and the
\* snapshot() callers, the network behaving as in the scenario.
LoopCheck(t) == LoopCheckUpTo(t, MaxCycles)
ProbePing(t) ==
    ProbePingFrom(t, ScenarioReach(hosts[loc[t].idx + 1]),
                  ScenarioConnectTicks(loc[t].cycle))
ProbeDownload(t) ==
    ProbeDownloadFrom(t, { TRUE }, ScenarioStreamBytes(loc[t].cycle), { 1 })

Next ==
    \/ Start
    \/ Stop
    \/ \E t \in Threads : LoopCheck(t)
    \/ \E t \in Threads : ProbePing(t)
    \/ \E t \in Threads : ProbeDownload(t)
    \/ \E t \in Threads : Acquire(t)
    \/ \E t \in Threads : BookDownload(t)
    \/ \E t \in Threads : BookPing(t)
    \/ \E t \in Threads : Return(t)
    \/ \E t \in Threads : Sleep(t)
    \/ \E r \in Readers : SnapshotAcquire(r)
    \/ \E r \in Readers : SnapshotReturn(r)

Spec == Init /\ [][Next]_vars

----------------------------------------------------------------------------
\* SpecCaller: one loop, the snapshot() callers, and a caller that writes to
\* the objects it shares with the engine: the list it gave to the
\* constructor, which __init__ keeps as self.hosts, and the parts of the
\* tuples snapshot() returned.

\* hosts.append(h), h a (host, port) pair or, by mistake, a 1-tuple
Malformed == << "gamma" >>
CallerAppendHost ==
    /\ Len(hosts) = Len(args.hosts)
    /\ \E h \in Targets \cup { Malformed } : hosts' = Append(hosts, h)
    /\ UNCHANGED << bytes_probe, interval, args, engine, readers, running, lock,
                    heap, pc, loc, begun, obliged >>

\* hosts.pop()
CallerPopHost ==
    /\ Len(hosts) > 0
    /\ Len(hosts) >= Len(args.hosts)
    /\ hosts' = SubSeq(hosts, 1, Len(hosts) - 1)
    /\ UNCHANGED << bytes_probe, interval, args, engine, readers, running, lock,
                    heap, pc, loc, begun, obliged >>

\* res, dl, ph = snapshot(); res["pings"][k] = None
CallerSetPing(r) ==
    /\ rpc[r] = "idle"
    /\ snap[r] # << >>
    /\ snap[r][1] # EmptyDict
    /\ \E k \in DictKeys(heap[snap[r][1].pings]) :
        heap' = [heap EXCEPT ![snap[r][1].pings] = DictSet(@, k, None)]
    /\ UNCHANGED << config, engine, readers, running, lock, pc, loc, begun, obliged >>

\* res["download_bps"] = 0; dl.clear(); ph[k].clear() for every k
CallerWriteCopies(r) ==
    /\ rpc[r] = "idle"
    /\ snap[r] # << >>
    /\ snap' = [snap EXCEPT ![r] =
                  << IF @[1] = EmptyDict THEN EmptyDict
                     ELSE [@[1] EXCEPT !.download_bps = 0],
                     << >>,
                     [k \in DOMAIN @[3] |-> << >>] >>]
    /\ UNCHANGED << config, engine, rpc, running, lock, heap, pc, loc, begun, obliged >>

CallerStart == pc[1] = "unborn" /\ Start

NextCaller ==
    \/ CallerStart
    \/ Stop
    \/ LoopCheck(1)
    \/ ProbePing(1)
    \/ ProbeDownload(1)
    \/ Acquire(1)
    \/ BookDownload(1)
    \/ BookPing(1)
    \/ Return(1)
    \/ Sleep(1)
    \/ \E r \in Readers : SnapshotAcquire(r)
    \/ \E r \in Readers : SnapshotReturn(r)
    \/ CallerAppendHost
    \/ CallerPopHost
    \/ \E r \in Readers : CallerSetPing(r)
    \/ \E r \in Readers : CallerWriteCopies(r)

SpecCaller == Init /\ [][NextCaller]_vars

\* SpecHosts: one loop, snapshot() callers, and a caller that changes the
\* list it gave to the constructor: the runs in which measure_once raises.
NextHosts ==
    \/ CallerStart
    \/ Stop
    \/ LoopCheck(1)
    \/ ProbePing(1)
    \/ ProbeDownload(1)
    \/ Acquire(1)
    \/ BookDownload(1)
    \/ BookPing(1)
    \/ Return(1)
    \/ Sleep(1)
    \/ \E r \in Readers : SnapshotAcquire(r)
    \/ \E r \in Readers : SnapshotReturn(r)
    \/ CallerAppendHost
    \/ CallerPopHost

SpecHosts == Init /\ [][NextHosts]_vars

\* The loop is a thread of its own: the scheduler runs it and time.sleep
\* returns.
FairHosts == SpecHosts /\ WF_vars(Sleep(1)) /\ WF_vars(LoopCheck(1))

----------------------------------------------------------------------------
\* SpecRestart: start() and stop() in any order and the loops they create,
\* without snapshot() callers.
NextRestart ==
    \/ Start
    \/ Stop
    \/ \E t \in Threads : LoopCheck(t)
    \/ \E t \in Threads : ProbePing(t)
    \/ \E t \in Threads : ProbeDownload(t)
    \/ \E t \in Threads : Acquire(t)
    \/ \E t \in Threads : BookDownload(t)
    \/ \E t \in Threads : BookPing(t)
    \/ \E t \in Threads : Return(t)
    \/ \E t \in Threads : Sleep(t)

SpecRestart == Init /\ [][NextRestart]_vars

----------------------------------------------------------------------------
\* SpecSingle: the program as main() drives it: one start(), hence one loop,
\* the snapshot() callers, and stop().
SingleStart == pc[1] = "unborn" /\ Start
SingleLoopCheck == LoopCheckUpTo(1, MaxSingleCycles)

NextSingle ==
    \/ SingleStart
    \/ Stop
    \/ SingleLoopCheck
    \/ ProbePing(1)
    \/ ProbeDownload(1)
    \/ Acquire(1)
    \/ BookDownload(1)
    \/ BookPing(1)
    \/ Return(1)
    \/ Sleep(1)
    \/ \E r \in Readers : SnapshotAcquire(r)
    \/ \E r \in Readers : SnapshotReturn(r)

SpecSingle == Init /\ [][NextSingle]_vars

\* Fair scheduling: a thread that can take a step takes it, and a thread
\* that finds the lock free again and again gets it; the callers of
\* snapshot() call it again and again.
FairSingle ==
    /\ SpecSingle
    /\ WF_vars(SingleLoopCheck)
    /\ WF_vars(ProbePing(1))
    /\ WF_vars(ProbeDownload(1))
    /\ SF_vars(Acquire(1))
    /\ WF_vars(BookDownload(1))
    /\ WF_vars(BookPing(1))
    /\ WF_vars(Return(1))
    /\ WF_vars(Sleep(1))
    /\ \A r \in Readers : SF_vars(SnapshotAcquire(r))
    /\ \A r \in Readers : WF_vars(SnapshotReturn(r))

----------------------------------------------------------------------------
\* SpecProbe: one loop, started once, and every outcome of every probe.
ProbeStart == pc[1] = "unborn" /\ Start
ProbeLoopCheck == LoopCheckUpTo(1, MaxProbeCycles)
AnyProbePing == ProbePingFrom(1, BOOLEAN, ConnectTicks)
AnyProbeDownload == ProbeDownloadFrom(1, BOOLEAN, StreamBytes, DownloadTicks)

NextProbe ==
    \/ ProbeStart
    \/ ProbeLoopCheck
    \/ AnyProbePing
    \/ AnyProbeDownload
    \/ Acquire(1)
    \/ BookDownload(1)
    \/ BookPing(1)
    \/ Return(1)
    \/ Sleep(1)

SpecProbe == Init /\ [][NextProbe]_vars

----------------------------------------------------------------------------
\* SpecHistory: one loop, started once, run for more cycles than a deque
\* holds.  The body served to cycle n is n % 7 chunks long and is read in one
\* tick, TargetA answers it after n ms and TargetB does too, except in every
\* third cycle, which it fails.
HistoryReach(h, n) == { h # TargetB \/ n % 3 # 0 }
HistoryStreamBytes(n) == { (n % 7) * CHUNK }

HistoryStart == pc[1] = "unborn" /\ Start
HistoryLoopCheck == LoopCheckUpTo(1, MaxHistoryCycles)
HistoryProbePing ==
    ProbePingFrom(1, HistoryReach(hosts[loc[1].idx + 1], loc[1].cycle),
                  ScenarioConnectTicks(loc[1].cycle))
HistoryProbeDownload ==
    ProbeDownloadFrom(1, { TRUE }, HistoryStreamBytes(loc[1].cycle), { 1 })

NextHistory ==
    \/ HistoryStart
    \/ HistoryLoopCheck
    \/ HistoryProbePing
    \/ HistoryProbeDownload
    \/ Acquire(1)
    \/ BookDownload(1)
    \/ BookPing(1)
    \/ Return(1)
    \/ Sleep(1)

SpecHistory == Init /\ [][NextHistory]_vars

----------------------------------------------------------------------------
\* The claims.

Last(q) == q[Len(q)]
LastN(q, n) == SubSeq(q, Len(q) - Min(Len(q), n) + 1, Len(q))
Pings(res) == heap[res.pings]

\* C1 (Spec): every tuple snapshot() returned after a completed cycle is of
\* one cycle: the last entry of its download history is the download_bps of
\* its last_results, and for every key the last entry of the key's ping
\* history is the key's entry in pings, or 0 where that entry is None.
C1_AtomicSnapshot ==
    \A r \in Readers :
        (snap[r] # << >> /\ snap[r][1] # EmptyDict) =>
            /\ snap[r][2] # << >>
            /\ Last(snap[r][2]) = snap[r][1].download_bps
            /\ DictKeys(Pings(snap[r][1])) = DOMAIN snap[r][3]
            /\ \A k \in DOMAIN snap[r][3] :
                /\ snap[r][3][k] # << >>
                /\ Last(snap[r][3][k]) =
                       IF DictGet(Pings(snap[r][1]), k) = None THEN 0
                       ELSE DictGet(Pings(snap[r][1]), k)[1]

\* A snapshot of the second cycle, taken while another loop is in a cycle.
C1_Witness ==
    \E r \in Readers :
        /\ snap[r] # << >>
        /\ Len(snap[r][2]) = 2
        /\ Cardinality(DOMAIN snap[r][3]) = 2
        /\ InCycle # {}

\* C2 (SpecCaller): a write by the caller to any part of a tuple snapshot()
\* returned leaves last_results (its pings included) and the histories of
\* the engine as they were.
EngineValue ==
    << IF last_results = EmptyDict THEN EmptyDict
       ELSE [last_results EXCEPT !.pings = heap[@]],
       download_history, ping_history >>
CallerWritesSnapshot ==
    \E r \in Readers : CallerSetPing(r) \/ CallerWriteCopies(r)
C2_SnapshotOwned == [][CallerWritesSnapshot => UNCHANGED EngineValue]_vars

\* C3 (Spec): at most one loop is live and at most one measure_once is in
\* flight.
C3_SingleSampler == Cardinality(Live) <= 1 /\ Cardinality(InCycle) <= 1

\* C4 (Spec): a loop that was live when stop() was called leaves its next
\* check of the running flag by terminating, never by beginning a cycle.
C4_StopObserved ==
    [][\A t \in Threads :
          (t \in obliged /\ pc[t] = "check" /\ pc'[t] # "check") => pc'[t] = "done"]_vars

\* C5 (Spec): whenever the lock is free, the download history and every ping
\* history have received as many appends as last_results has been replaced.
C5_NoPartialCycle ==
    lock = Free =>
        /\ Len(fed_download) = replaced
        /\ \A k \in DOMAIN fed_ping : Len(fed_ping[k]) = replaced

\* Two cycles committed over two ping histories, and the lock free again.
C5_Witness ==
    lock = Free /\ replaced = 2 /\ Cardinality(DOMAIN fed_ping) = 2

\* C6 (SpecCaller): the keys of ping_history and the targets a cycle has
\* probed are the keys of the targets the constructor was given.
C6_FixedTargets ==
    /\ DOMAIN ping_history = HostKeys(args.hosts)
    /\ \A t \in Threads :
        pc[t] \in { "acquire", "book_download", "book_ping", "return" } =>
            DictKeys(heap[loc[t].results]) = HostKeys(args.hosts)

\* C7 (SpecHistory): each history holds the last min(N, 120) of the N values
\* appended to it, in the order they were appended.
C7_BoundedFifo ==
    /\ Len(download_history) = Min(Len(fed_download), 120)
    /\ download_history = LastN(fed_download, 120)
    /\ \A k \in DOMAIN ping_history :
        /\ Len(ping_history[k]) = Min(Len(fed_ping[k]), 120)
        /\ ping_history[k] = LastN(fed_ping[k], 120)

\* After the 121st append the histories hold the 2nd to the 121st value.
C7_Witness ==
    /\ Len(fed_download) = 121
    /\ Len(download_history) = 120
    /\ download_history[1] = fed_download[2]
    /\ download_history[1] # fed_download[1]
    /\ \E k \in DOMAIN ping_history :
        /\ Len(fed_ping[k]) = 121
        /\ ping_history[k][1] = fed_ping[k][2]
        /\ ping_history[k][1] # fed_ping[k][1]

\* C8 (SpecProbe): a cycle with a failed probe still probes every target and
\* commits; where the probe of a failed and that of b succeeded, pings[a] is
\* None and pings[b] is a number that is not negative.
C8_FailureIsolation ==
    \A t \in Threads :
        pc[t] = "return" =>
            /\ last_results # EmptyDict
            /\ DictKeys(Pings(last_results)) = HostKeys(hosts)
            /\ \A a, b \in DictKeys(Pings(last_results)) :
                (a \in loc[t].failed /\ b \notin loc[t].failed) =>
                    /\ DictGet(Pings(last_results), a) = None
                    /\ DictGet(Pings(last_results), b) # None
                    /\ DictGet(Pings(last_results), b)[1] >= 0

\* The probe of TargetA failed, that of TargetB succeeded, the cycle is committed.
C8_Witness ==
    /\ pc[1] = "return"
    /\ loc[1].failed = { Key(TargetA) }
    /\ DictKeys(Pings(last_results)) = { Key(TargetA), Key(TargetB) }

\* C9 (SpecProbe): after a cycle, pings[k] is None exactly when the probe of
\* k failed; the history of k then ends in 0, and otherwise in pings[k].
C9_ZeroVersusFailed ==
    pc[1] = "return" =>
        \A k \in DictKeys(Pings(last_results)) :
            /\ (k \in loc[1].failed) <=> (DictGet(Pings(last_results), k) = None)
            /\ (k \in loc[1].failed) => Last(ping_history[k]) = 0
            /\ (k \notin loc[1].failed) =>
                   Last(ping_history[k]) = DictGet(Pings(last_results), k)[1]

\* One probe failed and another measured 0 ms: the histories agree, the pings do not.
C9_Witness ==
    /\ pc[1] = "return"
    /\ \E a, b \in DictKeys(Pings(last_results)) :
        /\ a \in loc[1].failed
        /\ DictGet(Pings(last_results), a) = None
        /\ DictGet(Pings(last_results), b) = Some(0)
        /\ Last(ping_history[a]) = 0
        /\ Last(ping_history[b]) = 0

\* C10 (SpecProbe): the committed throughput is bytes / elapsed where elapsed
\* is positive and 0 otherwise; an answered download has a positive elapsed,
\* an unanswered one gives bytes 0, elapsed 0 and throughput 0; the
\* throughput is never negative and is the value appended to the history.
C10_Throughput ==
    pc[1] = "return" =>
        /\ last_results.elapsed > 0 =>
               last_results.download_bps * last_results.elapsed = last_results.bytes
        /\ last_results.elapsed <= 0 => last_results.download_bps = 0
        /\ loc[1].ok => last_results.elapsed > 0
        /\ ~loc[1].ok =>
               /\ last_results.bytes = 0
               /\ last_results.elapsed = 0
               /\ last_results.download_bps = 0
        /\ last_results.download_bps >= 0
        /\ Last(download_history) = last_results.download_bps

\* An answered download whose read phase was floored, and an unanswered one.
C10_Witness ==
    /\ pc[1] = "return"
    /\ loc[1].ok
    /\ last_results.elapsed = MIN_ELAPSED
    /\ last_results.bytes = CHUNK
    /\ last_results.download_bps = CHUNK


\* measure_once of loop t ended by an exception: the loop is past the call
\* and nothing was returned.
Raised(t) == pc[t] = "sleep" /\ loc[t].ret = None

\* C11 (FairHosts): a measure_once that leaves its probing or bookkeeping
\* other than by going on leaves the loop at its sleep, alive and without the
\* lock; from there the loop comes to begin another cycle, unless the engine
\* was stopped (or the cycles of the model are used up).
C11_BadCycleSurvived ==
    /\ [][\A t \in Threads :
            ( /\ pc[t] \in { "ping", "book_ping" }
              /\ pc'[t] \notin { "ping", "acquire", "book_ping", "return" } ) =>
                (pc'[t] = "sleep" /\ t \in Live' /\ lock' # LoopHolder(t))]_vars
    /\ \A t \in Threads : [](Raised(t) => lock # LoopHolder(t))
    /\ Raised(1) ~> (pc[1] = "ping" \/ ~running \/ begun >= MaxCycles)

\* The first cycle raised in its bookkeeping, after the download append, and
\* the loop is in its second cycle.
C11_Witness ==
    /\ pc[1] = "ping"
    /\ loc[1].cycle = 2
    /\ replaced = 0
    /\ Len(fed_download) = 1
    /\ running

\* C12 (Spec): every engine that Construct yields has a target list that
\* is not empty and a probe byte budget above 0.
C12_ConstructValidated == Len(args.hosts) > 0 /\ args.bytes_probe > 0

\* What the engine holds besides its running flag.
Kept == << download_history, ping_history, last_results, heap, hosts, bytes_probe, interval >>

\* C13 (SpecRestart): stop() can be called in every state; it leaves the running
\* flag false and the histories and last_results as they were, and on an
\* engine that is not running it changes nothing at all.
C13_IdempotentStop ==
    /\ []ENABLED Stop
    /\ [][Stop => /\ running' = FALSE
                  /\ UNCHANGED Kept
                  /\ (~running => UNCHANGED << running, lock, pc, loc, readers, engine >>)]_vars

\* A stopped engine that had a loop when stop() was called and has a
\* history: the next stop() is a second one in a row.
C13_Witness ==
    /\ ~running
    /\ obliged # {}
    /\ download_history # << >>
    /\ last_results # EmptyDict

\* C14 (SpecRestart): start() and stop() leave the histories and last_results as
\* they are, and every step of a cycle, before or after a restart, leaves a
\* history as it is or appends one sample to it.
C14_RestartPreserves ==
    /\ [][(Start \/ Stop) => UNCHANGED Kept]_vars
    /\ [][/\ \/ download_history' = download_history
             \/ download_history' = DequeAppend(download_history, Last(download_history'))
          /\ \A k \in DOMAIN ping_history :
                \/ ping_history'[k] = ping_history[k]
                \/ ping_history'[k] = DequeAppend(ping_history[k], Last(ping_history'[k]))]_vars

\* The first loop ended after stop(), the loop of the second start() is
\* in the second cycle, and the history holds the samples of both cycles.
C14_Witness ==
    /\ pc[1] = "done"
    /\ pc[2] \in { "return", "sleep" }
    /\ loc[2].cycle = 2
    /\ Len(download_history) = 2
    /\ replaced = 2

\* C15 (Spec): a loop that is probing does not hold the lock; a loop holds
\* the lock only while it appends to the histories and replaces
\* last_results; and while a loop is probing and no bookkeeping or other
\* snapshot is under way, a snapshot() call can take the lock.
C15_ProbesOutsideLock ==
    \A t \in Threads :
        /\ pc[t] = "ping" => lock # LoopHolder(t)
        /\ lock = LoopHolder(t) => pc[t] \in { "book_download", "book_ping" }
        /\ (pc[t] = "ping" /\ lock = Free) =>
              \A r \in Readers : rpc[r] = "idle" => ENABLED SnapshotAcquire(r)

\* A snapshot() holds the lock while a loop is in the middle of its probes.
C15_Witness ==
    \E t \in Threads, r \in Readers :
        /\ pc[t] = "ping"
        /\ loc[t].idx = 1
        /\ rpc[r] = "copy"
        /\ lock = SnapHolder(r)

C17_IntervalClamp ==
    /\ args.interval >= 1 => interval = args.interval
    /\ args.interval < 1 => interval = 1

\* An engine constructed with a negative interval, in the sleep of its loop.
C17_Witness ==
    /\ args.interval < 0
    /\ interval = 1
    /\ \E t \in Threads : pc[t] = "sleep"

\* C18 (SpecSingle): with one start(), a cycle begins only at the test of
\* the running flag and only when every cycle begun before has completed its
\* bookkeeping; the flag test is reached only from the start of the thread
\* or from the sleep, the sleep only from the end of a cycle; so at most one
\* cycle begun is not yet completed.
C18_SelfThrottled ==
    /\ [](begun - replaced \in { 0, 1 })
    /\ [][begun' = begun + 1 => (pc[1] = "check" /\ replaced = begun)]_vars
    /\ [][(pc'[1] = "check" /\ pc[1] # "check") => pc[1] \in { "unborn", "sleep" }]_vars
    /\ [][(pc'[1] = "sleep" /\ pc[1] # "sleep") => (pc[1] = "return" /\ replaced = begun)]_vars
    /\ [][(pc[1] = "sleep" /\ pc'[1] # "sleep") => pc'[1] = "check"]_vars

\* The second cycle is under way, the first is completed.
C18_Witness ==
    /\ pc[1] = "ping"
    /\ loc[1].cycle = 2
    /\ begun = 2
    /\ replaced = 1

\* What the network of the scenario gives cycle n for target h.
ScenarioPing(h, n) == TcpConnectTime(h # TargetB, n * TICKS_PER_MS, CONNECT_TIMEOUT)
ScenarioDownload(n) == DownloadProbe(TRUE, n * CHUNK, 1, bytes_probe)

\* C19 (SpecSingle): once n cycles are completed, last_results is the record
\* of cycle n: its pings has the keys of the targets and the values cycle n
\* measured, its bytes, elapsed and download_bps are those of the download
\* of cycle n.  Before the first cycle is completed last_results is empty,
\* and so is every history unless the first bookkeeping is under way.
C19_ReplaceNotMerge ==
    /\ replaced = 0 =>
          /\ last_results = EmptyDict
          /\ lock # LoopHolder(1) =>
                /\ download_history = << >>
                /\ \A k \in DOMAIN ping_history : ping_history[k] = << >>
    /\ replaced > 0 =>
          /\ DOMAIN last_results = { "pings", "download_bps", "bytes", "elapsed" }
          /\ DictKeys(Pings(last_results)) = HostKeys(hosts)
          /\ \A i \in 1..Len(hosts) :
                DictGet(Pings(last_results), Key(hosts[i])) = ScenarioPing(hosts[i], replaced)
          /\ last_results.bytes = ScenarioDownload(replaced)[1]
          /\ last_results.elapsed = ScenarioDownload(replaced)[2]
          /\ last_results.download_bps =
                Throughput(ScenarioDownload(replaced)[1], ScenarioDownload(replaced)[2])

\* The second cycle has just replaced the record of the first.
C19_Witness ==
    /\ pc[1] = "return"
    /\ replaced = 2
    /\ Len(hosts) = 2
    /\ last_results.bytes = 2 * CHUNK
    /\ DictGet(Pings(last_results), Key(TargetA)) = Some(2)

\* C20 (Spec): what a call of measure_once returns is the record that call
\* computed, also when another call has committed in between.
C20_ReturnsOwnCycle ==
    \A t \in Threads :
        (pc[t] = "sleep" /\ loc[t].ret # None) => loc[t].ret[1] = OwnRecord(t)

====
